---- MODULE Spec2Model ----
(***************************************************************************)
(* Court-case management API (src/Problem 1/main.py).                      *)
(*                                                                         *)
(* The state is the relational database the handlers talk to (tables       *)
(* users, cases, votes and the serial of cases.id), the credentials issued *)
(* so far, and for every request in flight the handler's position between  *)
(* two SQL statements.  One action is one SQL statement of one handler     *)
(* together with the Python around it; a write and the conn.commit() that  *)
(* follows it in the same handler are one step (the row is locked and the  *)
(* write is invisible to the other connections until the commit).  A       *)
(* handler that raises before its commit persists nothing (conn.close()    *)
(* rolls back).  The source creates no table: no constraint of the schema  *)
(* is part of the repository, so the tables enforce none.                  *)
(*                                                                         *)
(* Columns the handlers never read and that no statement filters on        *)
(* (votes.id, cases.created_at) are not carried: votes is the bag of its   *)
(* (case_id, juror, verdict) rows.                                         *)
(***************************************************************************)
EXTENDS Integers, Sequences, FiniteSets, Bags, TLC

\* ---------------------------------------------------------------- bounds
MaxCases == 2
MaxVotes == 3
MaxUsers == 4

\* Request slots: requests in flight at the same time.
Procs == {1, 2}

\* ----------------------------------------------------------------- enums
UserRole == {"defendant", "plaintiff", "juror", "judge"}
VerdictStatus == {"pending", "approved", "rejected"}
Vote == {"guilty", "not_guilty"}

\* Optional[str]: None is the empty tuple, a provided string s is <<s>>.
None == <<>>
Some(s) == <<s>>
\* Python truthiness of an Optional[str]: None and "" are falsy.
Truthy(o) == o # None /\ o[1] # ""

\* ---------------------------------------------------------------- inputs
Usernames == {"jim", "ned"}
Passwords == {"pw", "px"}
CaseIds == 1..MaxCases
SignupRequest ==
    {[username |-> "jim", password |-> "px", role |-> "judge"],
     [username |-> "ned", password |-> "px", role |-> "juror"]}
\* Signups that compete for one username with different passwords and roles.
RacingSignups ==
    {[username |-> "ned", password |-> "pw", role |-> "juror"],
     [username |-> "ned", password |-> "px", role |-> "judge"]}
\* Names are strings as sequences of characters.
CaseSubmission ==
    {[defendant_name |-> <<"A", "b">>, plaintiff_name |-> <<"B", "a">>,
      argument |-> "a0", evidence |-> "e0"]}
\* The names searched for: one that occurs (in another letter case), one that
\* does not, and one made of a character LIKE gives a meaning to.
SearchNames == {<<"a", "B">>, <<"b", "b">>, <<"_">>}
CaseUpdate ==
    {[argument |-> Some("a1"), evidence |-> None],
     [argument |-> None, evidence |-> Some("")]}

VARIABLES
    users,        \* table users: the rows in insertion order
    cases,        \* table cases: id -> row
    nextCaseId,   \* the serial behind cases.id
    votes,        \* table votes: bag of rows
    tokens,       \* usernames a credential was issued for (create_token)
    conns,        \* requests holding an open database connection
    pc,           \* per request slot: the next statement of its handler
    req,          \* per request slot: the request being served
    pre,          \* per request slot: the database when the request arrived (history)
    resp          \* per request slot: the response, once the handler has ended

vars == <<users, cases, nextCaseId, votes, tokens, conns, pc, req, pre, resp>>

NoReq == [op |-> "none"]
Snapshot == [users |-> users, cases |-> cases, votes |-> votes, tokens |-> tokens]
NoPre == [users |-> <<>>, cases |-> <<>>, votes |-> EmptyBag, tokens |-> {}]
NoResp == [code |-> 0, body |-> None]

\* ---------------------------------------------------------------- tables
UserRow(u, pw, r) == [username |-> u, password |-> pw, role |-> r]
VoteRow(c, j, v) == [case_id |-> c, juror |-> j, verdict |-> v]

\* SELECT ... FROM users WHERE username = u
SelectUser(u) == {users[i] : i \in {k \in DOMAIN users : users[k].username = u}}
\* SELECT id FROM cases WHERE id = c
SelectCase(c) == {i \in DOMAIN cases : i = c}
\* SELECT id FROM votes WHERE case_id = c AND juror = j
SelectVote(c, j) == {v \in BagToSet(votes) : v.case_id = c /\ v.juror = j}

\* ------------------------------------------------------------- responses
\* The handler returns or raises: finally closes the cursor and the connection.
Done(p, code, body) ==
    /\ resp' = [resp EXCEPT ![p] = [code |-> code, body |-> body]]
    /\ pc' = [pc EXCEPT ![p] = "done"]
    /\ conns' = conns \ {p}
    /\ UNCHANGED <<req, pre>>

Goto(p, label) ==
    /\ pc' = [pc EXCEPT ![p] = label]
    /\ UNCHANGED <<req, pre, resp, conns>>

\* -------------------------------------------------------------- requests
\* The requests a client may send.  Every route but signup and login carries a
\* bearer credential; verify_token yields the username it was issued for.
AuthRequests ==
    {[op |-> "signup", username |-> s.username, password |-> s.password, role |-> s.role] :
        s \in SignupRequest}
    \cup {[op |-> "login", username |-> u, password |-> pw] : u \in Usernames, pw \in Passwords}

CaseRequests(actor) ==
    {[op |-> "submit", actor |-> actor, case |-> c] : c \in CaseSubmission}
    \cup {[op |-> "all", actor |-> actor]}
    \cup {[op |-> "by_name", actor |-> actor, name |-> n] : n \in SearchNames}
    \cup {[op |-> "edit", actor |-> actor, case_id |-> c, update |-> u] :
            c \in CaseIds, u \in CaseUpdate}
    \cup {[op |-> o, actor |-> actor, case_id |-> c] :
            o \in {"delete", "approve", "reject"}, c \in CaseIds}

JuryRequests(actor) ==
    {[op |-> "vote", actor |-> actor, case_id |-> c, verdict |-> v] : c \in CaseIds, v \in Vote}
    \cup {[op |-> "results", actor |-> actor, case_id |-> c] : c \in CaseIds}

Requests == AuthRequests \cup UNION {CaseRequests(a) \cup JuryRequests(a) : a \in tokens}

\* The requests of the concurrent workload: submissions, votes and deletions.
RaceRequests == {r \in Requests : r.op \in {"submit", "vote", "delete"}}

\* The requests of the concurrent signup workload: signups, and the logins
\* that read what they wrote.
SignupRaceRequests ==
    {[op |-> "signup", username |-> s.username, password |-> s.password, role |-> s.role] :
        s \in RacingSignups \cup SignupRequest}
    \cup {r \in AuthRequests : r.op = "login"}

\* The first statement of each handler.
Entry(op) ==
    CASE op = "signup"  -> "signup_select"
      [] op = "login"   -> "login_select"
      [] op = "submit"  -> "submit_role"
      [] op = "all"     -> "all_select"
      [] op = "by_name" -> "by_name_role"
      [] op = "edit"    -> "edit_role"
      [] op = "delete"  -> "delete_role"
      [] op = "approve" -> "approve_role"
      [] op = "reject"  -> "reject_role"
      [] op = "vote"    -> "vote_role"
      [] op = "results" -> "results_exists"

\* The tables stay within the bounds of the model: a request that could add a
\* row is accepted only while its table has room.
HasRoom(r) ==
    /\ r.op = "signup" => Len(users) < MaxUsers
    /\ r.op = "submit" => nextCaseId <= MaxCases
    /\ r.op = "vote" => BagCardinality(votes) < MaxVotes

\* A request arrives: conn = get_db_connection(); cur = conn.cursor().
\* (A slot whose connection was never closed serves no further request: the
\* connection stays on record as open.)
Arrive(p, requests, snapshot) ==
    /\ pc[p] = "idle"
    /\ p \notin conns
    /\ \E r \in requests :
        /\ HasRoom(r)
        /\ req' = [req EXCEPT ![p] = r]
        /\ pc' = [pc EXCEPT ![p] = Entry(r.op)]
    /\ pre' = [pre EXCEPT ![p] = snapshot]
    /\ conns' = conns \cup {p}
    /\ UNCHANGED <<users, cases, nextCaseId, votes, tokens, resp>>

\* Any request, with the database as it is on arrival kept for the record.
Start(p) == Arrive(p, Requests, Snapshot)

\* A request of the concurrent workload (no record of the database on arrival).
StartRace(p) == Arrive(p, RaceRequests, NoPre)

StartSignupRace(p) == Arrive(p, SignupRaceRequests, NoPre)

\* conn = get_db_connection() succeeds and cur = conn.cursor() raises: both
\* precede the try block, so no finally runs and the request fails (500).
CursorFails(p) ==
    /\ pc[p] = "idle"
    /\ p \notin conns
    /\ \E r \in Requests :
        /\ HasRoom(r)
        /\ req' = [req EXCEPT ![p] = r]
    /\ pre' = [pre EXCEPT ![p] = Snapshot]
    /\ conns' = conns \cup {p}
    /\ pc' = [pc EXCEPT ![p] = "done"]
    /\ resp' = [resp EXCEPT ![p] = [code |-> 500, body |-> "Internal Server Error"]]
    /\ UNCHANGED <<users, cases, nextCaseId, votes, tokens>>

\* The statement the handler is about to run (or its commit) raises inside the
\* try block: nothing of the request is committed, finally closes cursor and
\* connection, and the request fails (500).
StatementFails(p) ==
    /\ pc[p] \notin {"idle", "done"}
    /\ Done(p, 500, "Internal Server Error")
    /\ UNCHANGED <<users, cases, nextCaseId, votes, tokens>>

\* The response has been sent: the slot is free for the next request.
Return(p) ==
    /\ pc[p] = "done"
    /\ pc' = [pc EXCEPT ![p] = "idle"]
    /\ req' = [req EXCEPT ![p] = NoReq]
    /\ pre' = [pre EXCEPT ![p] = NoPre]
    /\ resp' = [resp EXCEPT ![p] = NoResp]
    /\ UNCHANGED <<users, cases, nextCaseId, votes, tokens, conns>>

\* ------------------------------------------------------------------ auth
\* create_token: the credential is bound to the username alone.
create_token(username) == [username |-> username]

\* signup, lines 91-93: SELECT username FROM users WHERE username = %s.
SignupSelect(p) ==
    /\ pc[p] = "signup_select"
    /\ IF SelectUser(req[p].username) # {}
       THEN Done(p, 400, "User already exists")
       ELSE Goto(p, "signup_insert")
    /\ UNCHANGED <<users, cases, nextCaseId, votes, tokens>>

\* signup that returns the token without its row being committed.
SignupInsert_NoCommit(p) ==
    /\ pc[p] = "signup_insert"
    /\ tokens' = tokens \cup {req[p].username}
    /\ Done(p, 200, [message |-> "User registered", token |-> create_token(req[p].username)])
    /\ UNCHANGED <<users, cases, nextCaseId, votes>>

\* signup, lines 95-98: INSERT INTO users, commit, return the token.
SignupInsert(p) ==
    /\ pc[p] = "signup_insert"
    /\ users' = Append(users, UserRow(req[p].username, req[p].password, req[p].role))
    /\ tokens' = tokens \cup {req[p].username}
    /\ Done(p, 200, [message |-> "User registered", token |-> create_token(req[p].username)])
    /\ UNCHANGED <<cases, nextCaseId, votes>>

\* Login that accepts any password of a known username.
Login_AnyPassword(p) ==
    /\ pc[p] = "login_select"
    /\ IF SelectUser(req[p].username) = {}
       THEN Done(p, 401, "Invalid credentials") /\ UNCHANGED tokens
       ELSE /\ tokens' = tokens \cup {req[p].username}
            /\ Done(p, 200, [token |-> create_token(req[p].username)])
    /\ UNCHANGED <<users, cases, nextCaseId, votes>>

\* login, lines 108-112: fetchone takes one of the rows of that username.
Login(p) ==
    /\ pc[p] = "login_select"
    /\ LET rows == SelectUser(req[p].username) IN
       IF rows = {}
       THEN Done(p, 401, "Invalid credentials") /\ UNCHANGED tokens
       ELSE \E user \in rows :
            IF user.password # req[p].password
            THEN Done(p, 401, "Invalid credentials") /\ UNCHANGED tokens
            ELSE /\ tokens' = tokens \cup {req[p].username}
                 /\ Done(p, 200, [token |-> create_token(req[p].username)])
    /\ UNCHANGED <<users, cases, nextCaseId, votes>>

\* ----------------------------------------------------------------- cases
\* SELECT role FROM users WHERE username = %s; user = cur.fetchone(); then the
\* handler's test of user's role.  fetchone takes one of the rows of that
\* username; with no row, subscripting None raises and the request fails (500).
RoleCheck(p, allowed, next) ==
    /\ LET rows == SelectUser(req[p].actor) IN
       IF rows = {}
       THEN Done(p, 500, "Internal Server Error")
       ELSE \E user \in rows :
            IF user.role \notin allowed
            THEN Done(p, 403, "Unauthorized")
            ELSE Goto(p, next)
    /\ UNCHANGED <<users, cases, nextCaseId, votes, tokens>>

\* The existence check dropped.
ExistsCheck_Skipped(p, next) ==
    /\ Goto(p, next)
    /\ UNCHANGED <<users, cases, nextCaseId, votes, tokens>>

\* SELECT id FROM cases WHERE id = %s; if not cur.fetchone(): raise 404.
ExistsCheck(p, next) ==
    /\ IF SelectCase(req[p].case_id) = {}
       THEN Done(p, 404, "Case not found")
       ELSE Goto(p, next)
    /\ UNCHANGED <<users, cases, nextCaseId, votes, tokens>>

CaseRow(id, c, status, username) ==
    [id |-> id, defendant_name |-> c.defendant_name, plaintiff_name |-> c.plaintiff_name,
     argument |-> c.argument, evidence |-> c.evidence, status |-> status,
     submitted_by |-> username]

\* submit_case open to jurors as well.
SubmitRole_JurorsToo(p) ==
    /\ pc[p] = "submit_role"
    /\ RoleCheck(p, {"defendant", "plaintiff", "juror"}, "submit_insert")

\* submit_case, lines 123-126.
SubmitRole(p) ==
    /\ pc[p] = "submit_role"
    /\ RoleCheck(p, {"defendant", "plaintiff"}, "submit_insert")

\* submit_case, lines 128-134: INSERT ... RETURNING id, commit.
SubmitInsert(p) ==
    /\ pc[p] = "submit_insert"
    /\ cases' = cases @@ (nextCaseId :> CaseRow(nextCaseId, req[p].case, "pending", req[p].actor))
    /\ nextCaseId' = nextCaseId + 1
    /\ Done(p, 200, [case_id |-> nextCaseId, status |-> "pending"])
    /\ UNCHANGED <<users, votes, tokens>>

\* get_all_cases, lines 145-146: SELECT * FROM cases.
GetAllCases(p) ==
    /\ pc[p] = "all_select"
    /\ Done(p, 200, {cases[i] : i \in DOMAIN cases})
    /\ UNCHANGED <<users, cases, nextCaseId, votes, tokens>>

\* str.lower() and SQL LOWER, on the letters of the alphabet.
LowerChar(ch) ==
    CASE ch = "A" -> "a"
      [] ch = "B" -> "b"
      [] OTHER -> ch
Lower(s) == [i \in DOMAIN s |-> LowerChar(s[i])]

\* s LIKE pattern: % stands for any run of characters, _ for any one character,
\* every other character for itself.
RECURSIVE Like(_, _)
Like(s, pattern) ==
    IF pattern = <<>> THEN s = <<>>
    ELSE IF Head(pattern) = "%"
         THEN Like(s, Tail(pattern)) \/ (s # <<>> /\ Like(Tail(s), pattern))
         ELSE /\ s # <<>>
              /\ Head(pattern) = "_" \/ Head(pattern) = Head(s)
              /\ Like(Tail(s), Tail(pattern))

\* filter_by_name, lines 156-159.
FilterRole(p) ==
    /\ pc[p] = "by_name_role"
    /\ RoleCheck(p, {"juror"}, "by_name_select")

\* SELECT * FROM cases WHERE LOWER(defendant_name) LIKE %s OR LOWER(plaintiff_name)
\* LIKE %s, both parameters f"%{name.lower()}%".
SelectByName(name) ==
    LET pattern == <<"%">> \o Lower(name) \o <<"%">> IN
    {cases[i] : i \in {k \in DOMAIN cases :
        \/ Like(Lower(cases[k].defendant_name), pattern)
        \/ Like(Lower(cases[k].plaintiff_name), pattern)}}

\* filter_by_name, lines 161-163.
FilterSelect(p) ==
    /\ pc[p] = "by_name_select"
    /\ Done(p, 200, SelectByName(req[p].name))
    /\ UNCHANGED <<users, cases, nextCaseId, votes, tokens>>

\* edit_case with the existence check ahead of the role check.
EditRole_ExistsFirst(p) ==
    /\ pc[p] = "edit_role"
    /\ IF SelectCase(req[p].case_id) = {}
       THEN ExistsCheck(p, "edit_role")
       ELSE RoleCheck(p, {"judge"}, "edit_exists")

\* edit_case, lines 173-176.
EditRole(p) ==
    /\ pc[p] = "edit_role"
    /\ RoleCheck(p, {"judge"}, "edit_exists")

\* edit_case, lines 178-180.
EditExists(p) ==
    /\ pc[p] = "edit_exists"
    /\ ExistsCheck(p, "edit_update")

\* UPDATE cases SET <column> = value WHERE id = c, applied to table t.
UpdateCase(t, c, column, value) ==
    [i \in DOMAIN t |-> IF i = c THEN [t[i] EXCEPT ![column] = value] ELSE t[i]]

\* edit_case, lines 182-186: an UPDATE for each truthy field, then the commit.
EditedCases(c, update) ==
    LET t1 == IF Truthy(update.argument)
              THEN UpdateCase(cases, c, "argument", update.argument[1]) ELSE cases
    IN  IF Truthy(update.evidence)
        THEN UpdateCase(t1, c, "evidence", update.evidence[1]) ELSE t1

EditUpdate(p) ==
    /\ pc[p] = "edit_update"
    /\ cases' = EditedCases(req[p].case_id, req[p].update)
    /\ Goto(p, "edit_select")
    /\ UNCHANGED <<users, nextCaseId, votes, tokens>>

\* edit_case, lines 188-189: SELECT * FROM cases WHERE id = %s; fetchone().
EditSelect(p) ==
    /\ pc[p] = "edit_select"
    /\ Done(p, 200, IF req[p].case_id \in DOMAIN cases THEN cases[req[p].case_id] ELSE None)
    /\ UNCHANGED <<users, cases, nextCaseId, votes, tokens>>

\* delete_case, lines 199-202.
DeleteRole(p) ==
    /\ pc[p] = "delete_role"
    /\ RoleCheck(p, {"judge"}, "delete_exists")

\* delete_case, lines 204-206.
DeleteExists(p) ==
    /\ pc[p] = "delete_exists"
    /\ ExistsCheck(p, "delete_delete")

\* delete_case that removes the votes of the case with it.
DeleteDelete_Cascade(p) ==
    /\ pc[p] = "delete_delete"
    /\ cases' = [i \in DOMAIN cases \ {req[p].case_id} |-> cases[i]]
    /\ votes' = [r \in {x \in BagToSet(votes) : x.case_id # req[p].case_id} |-> votes[r]]
    /\ Done(p, 200, [message |-> "Case deleted"])
    /\ UNCHANGED <<users, nextCaseId, tokens>>

\* delete_case, lines 208-210: DELETE FROM cases WHERE id = %s, commit.
DeleteDelete(p) ==
    /\ pc[p] = "delete_delete"
    /\ cases' = [i \in DOMAIN cases \ {req[p].case_id} |-> cases[i]]
    /\ Done(p, 200, [message |-> "Case deleted"])
    /\ UNCHANGED <<users, nextCaseId, votes, tokens>>

\* approve_case without the restriction to judges.
ApproveRole_AnyRole(p) ==
    /\ pc[p] = "approve_role"
    /\ RoleCheck(p, UserRole, "approve_update")

\* approve_case, lines 220-223.
ApproveRole(p) ==
    /\ pc[p] = "approve_role"
    /\ RoleCheck(p, {"judge"}, "approve_update")

\* The status UPDATE restricted to pending cases (... AND status = 'pending').
SetStatus_PendingOnly(p, status) ==
    /\ IF req[p].case_id \in DOMAIN cases /\ cases[req[p].case_id].status = "pending"
       THEN /\ cases' = [cases EXCEPT ![req[p].case_id].status = status]
            /\ Done(p, 200, cases'[req[p].case_id])
       ELSE /\ UNCHANGED cases
            /\ Done(p, 404, "Case not found")
    /\ UNCHANGED <<users, nextCaseId, votes, tokens>>

\* UPDATE cases SET status = %s WHERE id = %s RETURNING *; case = cur.fetchone();
\* 404 without commit when no row came back, else commit and return the row.
SetStatus(p, status) ==
    /\ IF req[p].case_id \in DOMAIN cases
       THEN /\ cases' = UpdateCase(cases, req[p].case_id, "status", status)
            /\ Done(p, 200, cases'[req[p].case_id])
       ELSE /\ UNCHANGED cases
            /\ Done(p, 404, "Case not found")
    /\ UNCHANGED <<users, nextCaseId, votes, tokens>>

\* approve_case, lines 225-231.
ApproveUpdate(p) ==
    /\ pc[p] = "approve_update"
    /\ SetStatus(p, "approved")

\* reject_case, lines 241-244.
RejectRole(p) ==
    /\ pc[p] = "reject_role"
    /\ RoleCheck(p, {"judge"}, "reject_update")

\* reject_case, lines 246-252.
RejectUpdate(p) ==
    /\ pc[p] = "reject_update"
    /\ SetStatus(p, "rejected")

\* ------------------------------------------------------------------ jury
\* vote with the existence check ahead of the role check.
VoteRole_ExistsFirst(p) ==
    /\ pc[p] = "vote_role"
    /\ IF SelectCase(req[p].case_id) = {}
       THEN ExistsCheck(p, "vote_role")
       ELSE RoleCheck(p, {"juror"}, "vote_exists")

\* vote, lines 263-266.
VoteRole(p) ==
    /\ pc[p] = "vote_role"
    /\ RoleCheck(p, {"juror"}, "vote_exists")

\* vote that accepts only a case still pending.
VoteExists_PendingOnly(p) ==
    /\ pc[p] = "vote_exists"
    /\ IF \E c \in SelectCase(req[p].case_id) : cases[c].status = "pending"
       THEN Goto(p, "vote_voted")
       ELSE Done(p, 404, "Case not found")
    /\ UNCHANGED <<users, cases, nextCaseId, votes, tokens>>

\* vote, lines 268-270.
VoteExists(p) ==
    /\ pc[p] = "vote_exists"
    /\ ExistsCheck(p, "vote_voted")

\* vote without the duplicate check.
VoteVoted_Skipped(p) ==
    /\ pc[p] = "vote_voted"
    /\ Goto(p, "vote_insert")
    /\ UNCHANGED <<users, cases, nextCaseId, votes, tokens>>

\* vote, lines 272-274: SELECT id FROM votes WHERE case_id = %s AND juror = %s.
VoteVoted(p) ==
    /\ pc[p] = "vote_voted"
    /\ IF SelectVote(req[p].case_id, req[p].actor) # {}
       THEN Done(p, 400, "Already voted")
       ELSE Goto(p, "vote_insert")
    /\ UNCHANGED <<users, cases, nextCaseId, votes, tokens>>

\* vote, lines 276-279: INSERT INTO votes, commit.
VoteInsert(p) ==
    /\ pc[p] = "vote_insert"
    /\ votes' = votes (+) SetToBag({VoteRow(req[p].case_id, req[p].actor, req[p].verdict)})
    /\ Done(p, 200, [message |-> "Vote recorded"])
    /\ UNCHANGED <<users, cases, nextCaseId, tokens>>

\* get_results, lines 289-291.
ResultsExists(p) ==
    /\ pc[p] = "results_exists"
    /\ ExistsCheck(p, "results_count")

\* The rows of table t with case_id = c and verdict = v, as a bag.
VotesFor(t, c, v) ==
    [r \in {x \in BagToSet(t) : x.case_id = c /\ x.verdict = v} |-> t[r]]

\* The grouped count without its WHERE case_id = %s.
GroupByVerdict_AllCases(c) ==
    {[count |-> BagCardinality([x \in {y \in BagToSet(votes) : y.verdict = r.verdict} |-> votes[x]]),
      verdict |-> r.verdict] : r \in BagToSet(votes)}

\* SELECT COUNT(*) as count, verdict FROM votes WHERE case_id = %s GROUP BY verdict:
\* one row for each verdict that occurs.
GroupByVerdict(c) ==
    {[count |-> BagCardinality(VotesFor(votes, c, r.verdict)), verdict |-> r.verdict] :
        r \in {x \in BagToSet(votes) : x.case_id = c}}

\* next((r["count"] for r in results if r["verdict"] == v), 0)
CountOf(results, v) ==
    IF \E r \in results : r.verdict = v
    THEN (CHOOSE r \in results : r.verdict = v).count
    ELSE 0

\* get_results, lines 293-300.
Tally(c) ==
    LET results == GroupByVerdict(c)
        guilty_count == CountOf(results, "guilty")
        not_guilty_count == CountOf(results, "not_guilty")
    IN  [guilty |-> guilty_count, not_guilty |-> not_guilty_count,
         total_votes |-> guilty_count + not_guilty_count]

ResultsCount(p) ==
    /\ pc[p] = "results_count"
    /\ Done(p, 200, Tally(req[p].case_id))
    /\ UNCHANGED <<users, cases, nextCaseId, votes, tokens>>

Init ==
    /\ users = << UserRow("judy", "pw", "judge"),
                  UserRow("jim", "pw", "juror"),
                  UserRow("pat", "pw", "plaintiff") >>
    /\ cases = <<>>
    /\ nextCaseId = 1
    /\ votes = EmptyBag
    /\ tokens = {"judy", "jim", "pat"}
    /\ conns = {}
    /\ pc = [p \in Procs |-> "idle"]
    /\ req = [p \in Procs |-> NoReq]
    /\ pre = [p \in Procs |-> NoPre]
    /\ resp = [p \in Procs |-> NoResp]

\* ------------------------------------------------------------ behaviours
Handler(p) ==
    \/ SignupSelect(p) \/ SignupInsert(p) \/ Login(p)
    \/ SubmitRole(p) \/ SubmitInsert(p)
    \/ GetAllCases(p)
    \/ FilterRole(p) \/ FilterSelect(p)
    \/ EditRole(p) \/ EditExists(p) \/ EditUpdate(p) \/ EditSelect(p)
    \/ DeleteRole(p) \/ DeleteExists(p) \/ DeleteDelete(p)
    \/ ApproveRole(p) \/ ApproveUpdate(p)
    \/ RejectRole(p) \/ RejectUpdate(p)
    \/ VoteRole(p) \/ VoteExists(p) \/ VoteVoted(p) \/ VoteInsert(p)
    \/ ResultsExists(p) \/ ResultsCount(p)

\* Requests served one after another: the next request arrives when the
\* previous one has been answered.
Next == Start(1) \/ Handler(1) \/ Return(1)

Spec == Init /\ [][Next]_vars

\* Requests served concurrently, their statements interleaved.
RaceHandler(p) ==
    \/ SubmitRole(p) \/ SubmitInsert(p)
    \/ DeleteRole(p) \/ DeleteExists(p) \/ DeleteDelete(p)
    \/ VoteRole(p) \/ VoteExists(p) \/ VoteVoted(p) \/ VoteInsert(p)

RaceNext == \E p \in Procs : StartRace(p) \/ RaceHandler(p) \/ Return(p)

RaceSpec == Init /\ [][RaceNext]_vars

\* Two signup or login requests in flight at once, statement by statement.
SignupRaceHandler(p) == SignupSelect(p) \/ SignupInsert(p) \/ Login(p)

SignupRaceNext == \E p \in Procs : StartSignupRace(p) \/ SignupRaceHandler(p) \/ Return(p)

SignupRaceSpec == Init /\ [][SignupRaceNext]_vars

\* Requests served one after another over a database whose steps may fail.
FailNext == Start(1) \/ CursorFails(1) \/ Handler(1) \/ StatementFails(1) \/ Return(1)

FailSpec == Init /\ [][FailNext]_vars

\* ---------------------------------------------------------------- claims
\* What the properties below read of a table as it was when a request arrived.
RolesIn(t, u) == {t[i].role : i \in {k \in DOMAIN t : t[k].username = u}}
PasswordsIn(t, u) == {t[i].password : i \in {k \in DOMAIN t : t[k].username = u}}
\* The number of rows of votes table t for case c by juror j, and for case c.
VotesBy(t, c, j) ==
    BagCardinality([r \in {x \in BagToSet(t) : x.case_id = c /\ x.juror = j} |-> t[r]])
VotesOn(t, c) ==
    BagCardinality([r \in {x \in BagToSet(t) : x.case_id = c} |-> t[r]])
Jurors(t) == {r.juror : r \in BagToSet(t)}
Answered(p, op) == pc[p] = "done" /\ req[p].op = op
IsRole(t, u, role) == RolesIn(t, u) = {role}
TablesAsOnArrival(p) ==
    users = pre[p].users /\ cases = pre[p].cases /\ votes = pre[p].votes

\* C1: under every interleaving of concurrent cast_vote requests, every
\* reachable state holds at most one vote for each (case_id, juror) pair.
C1_OneVotePerJurorAndCase ==
    \A r \in BagToSet(votes) : VotesBy(votes, r.case_id, r.juror) <= 1

\* C2: with requests served one after another, a juror who has already voted on
\* a case (a case that still exists) and votes on it again, with any verdict, is
\* answered Conflict and the votes are unchanged; no juror ever has more than one
\* vote on a case, so a tally of the case counts the juror's first verdict only:
\* its total is the number of jurors who voted on the case.
C2_SecondVoteConflict ==
    /\ \A p \in Procs :
        (/\ Answered(p, "vote")
         /\ req[p].case_id \in DOMAIN pre[p].cases
         /\ VotesBy(pre[p].votes, req[p].case_id, req[p].actor) > 0)
        => /\ resp[p].code = 400
           /\ votes = pre[p].votes
    /\ \A p \in Procs :
        (Answered(p, "results") /\ resp[p].code = 200)
        => /\ \A j \in Jurors(votes) : VotesBy(votes, req[p].case_id, j) <= 1
           /\ resp[p].body.total_votes =
                Cardinality({j \in Jurors(votes) : VotesBy(votes, req[p].case_id, j) > 0})

\* The second vote, with the other verdict, has been refused.
C2_Witness ==
    \E p \in Procs :
        /\ Answered(p, "vote")
        /\ resp[p].code = 400
        /\ \E r \in BagToSet(votes) :
            /\ r.case_id = req[p].case_id
            /\ r.juror = req[p].actor
            /\ r.verdict # req[p].verdict

\* C3: once a case is approved or rejected, no step changes its status for as
\* long as the case exists.
C3_NoTransitionOut ==
    [][\A c \in DOMAIN cases \cap DOMAIN cases' :
        cases[c].status \in {"approved", "rejected"} => cases'[c].status = cases[c].status]_vars

\* C4: a case is pending only from its creation by submit: a new case is
\* pending and comes from submit's insert; no step sets the status of an
\* existing case to pending, and the status of an existing case changes only in
\* the update of an approve or reject request whose actor's stored role is judge.
C4_StatusOnlyByJudge ==
    [][/\ \A c \in DOMAIN cases' \ DOMAIN cases :
            /\ cases'[c].status = "pending"
            /\ \E p \in Procs : pc[p] = "submit_insert" /\ pc'[p] = "done"
       /\ \A c \in DOMAIN cases \cap DOMAIN cases' :
            cases'[c].status # cases[c].status
            => /\ cases'[c].status # "pending"
               /\ \E p \in Procs :
                    /\ pc[p] \in {"approve_update", "reject_update"}
                    /\ pc'[p] = "done"
                    /\ req[p].case_id = c
                    /\ "judge" \in RolesIn(users, req[p].actor)]_vars

\* A judge's approve or reject has just changed the status of a case.
C4_Witness ==
    \E p \in Procs :
        /\ pc[p] = "done" /\ req[p].op \in {"approve", "reject"}
        /\ resp[p].code = 200
        /\ pre[p].cases[req[p].case_id].status # cases[req[p].case_id].status

\* C5: approve, reject, edit and delete by an actor whose stored role is not
\* judge fail with Forbidden, whether the case exists or not, and leave the
\* cases and votes tables as they were.
C5_NonJudgeForbidden ==
    \A p \in Procs :
        (/\ pc[p] = "done"
         /\ req[p].op \in {"approve", "reject", "edit", "delete"}
         /\ "judge" \notin RolesIn(pre[p].users, req[p].actor))
        => /\ resp[p].code = 403
           /\ cases = pre[p].cases
           /\ votes = pre[p].votes

\* A non-judge has been refused for a case that does not exist, with votes stored.
C5_Witness ==
    \E p \in Procs :
        /\ Answered(p, "edit")
        /\ resp[p].code = 403
        /\ req[p].case_id \notin DOMAIN cases
        /\ votes # EmptyBag

\* C6: approve (reject) by a judge on an existing case succeeds whatever the
\* prior status, sets the status to approved (rejected) and changes nothing
\* else, and returns the case; on a case that already has that status it leaves
\* the stored state exactly as it was, so two calls in a row leave what one does.
C6_ApproveRejectIdempotent ==
    \A p \in Procs :
        (/\ pc[p] = "done"
         /\ req[p].op \in {"approve", "reject"}
         /\ IsRole(pre[p].users, req[p].actor, "judge")
         /\ req[p].case_id \in DOMAIN pre[p].cases)
        => LET c == req[p].case_id
               status == IF req[p].op = "approve" THEN "approved" ELSE "rejected"
           IN  /\ resp[p].code = 200
               /\ cases = [pre[p].cases EXCEPT ![c].status = status]
               /\ resp[p].body = cases[c]
               /\ users = pre[p].users /\ votes = pre[p].votes
               /\ pre[p].cases[c].status = status => cases = pre[p].cases

\* An approved case has been approved again.
C6_Witness ==
    \E p \in Procs :
        /\ Answered(p, "approve")
        /\ resp[p].code = 200
        /\ pre[p].cases[req[p].case_id].status = "approved"
        /\ cases = pre[p].cases
\* C7: with no case of the given id, approve, reject, edit and delete by a
\* judge, cast_vote by a juror and tally by any authenticated user fail with
\* NotFound and leave users, cases, votes and the issued credentials unchanged.
C7_AbsentCaseNotFound ==
    \A p \in Procs :
        (/\ pc[p] = "done"
         /\ \/ /\ req[p].op \in {"approve", "reject", "edit", "delete"}
               /\ IsRole(pre[p].users, req[p].actor, "judge")
            \/ /\ req[p].op = "vote"
               /\ IsRole(pre[p].users, req[p].actor, "juror")
            \/ req[p].op = "results"
         /\ req[p].case_id \notin DOMAIN pre[p].cases)
        => /\ resp[p].code = 404
           /\ TablesAsOnArrival(p)
           /\ tokens = pre[p].tokens

\* A judge's approve of a deleted case has been answered NotFound while another
\* case is stored.
C7_Witness ==
    \E p \in Procs :
        /\ Answered(p, "approve")
        /\ resp[p].code = 404
        /\ req[p].case_id < nextCaseId
        /\ DOMAIN cases # {}

\* C8: under every interleaving of cast_vote with delete, a vote is inserted
\* only while the case its case_id names exists.
C8_VoteOnlyForExistingCase ==
    [][\A r \in BagToSet(votes') :
        CopiesIn(r, votes') > CopiesIn(r, votes) => r.case_id \in DOMAIN cases]_vars

\* C9: signup with a username that exists fails with Conflict, login with an
\* unknown username or a password that is not the stored one fails with
\* Unauthorized; either way no table changes (the existing user keeps password
\* and role), and no credential is issued.
C9_AuthFailuresChangeNothing ==
    \A p \in Procs :
        /\ (Answered(p, "signup") /\ RolesIn(pre[p].users, req[p].username) # {})
           => /\ resp[p].code = 400
              /\ resp[p].body = "User already exists"
              /\ TablesAsOnArrival(p)
              /\ tokens = pre[p].tokens
        /\ (Answered(p, "login") /\ req[p].password \notin PasswordsIn(pre[p].users, req[p].username))
           => /\ resp[p].code = 401
              /\ resp[p].body = "Invalid credentials"
              /\ TablesAsOnArrival(p)
              /\ tokens = pre[p].tokens

\* A signup with the username of a user, under another password and role, has
\* been refused.
C9_Witness ==
    \E p \in Procs :
        /\ Answered(p, "signup")
        /\ resp[p].code = 400
        /\ \E i \in DOMAIN users :
            /\ users[i].username = req[p].username
            /\ users[i].password # req[p].password
            /\ users[i].role # req[p].role

\* C10: for an existing case, in any status and for any authenticated actor,
\* tally returns as guilty the number of stored votes on that case with verdict
\* guilty, as not_guilty the number with verdict not_guilty, and as total their
\* sum, which is the number of stored votes on that case.
CountVerdict(t, c, v) ==
    BagCardinality([r \in {x \in BagToSet(t) : x.case_id = c /\ x.verdict = v} |-> t[r]])

C10_TallyCounts ==
    \A p \in Procs :
        (Answered(p, "results") /\ req[p].case_id \in DOMAIN pre[p].cases)
        => /\ resp[p].code = 200
           /\ resp[p].body.guilty = CountVerdict(pre[p].votes, req[p].case_id, "guilty")
           /\ resp[p].body.not_guilty = CountVerdict(pre[p].votes, req[p].case_id, "not_guilty")
           /\ resp[p].body.total_votes = resp[p].body.guilty + resp[p].body.not_guilty
           /\ resp[p].body.total_votes = VotesOn(pre[p].votes, req[p].case_id)

\* The tally of a pending case, asked by a user who is no juror, with votes of
\* both verdicts on the case and a vote on another case.
C10_Witness ==
    \E p \in Procs :
        /\ Answered(p, "results")
        /\ resp[p].code = 200
        /\ cases[req[p].case_id].status = "pending"
        /\ "juror" \notin RolesIn(users, req[p].actor)
        /\ resp[p].body.guilty > 0
        /\ resp[p].body.not_guilty > 0
        /\ \E r \in BagToSet(votes) : r.case_id # req[p].case_id

\* C11: submit fails with Forbidden and creates nothing unless the actor's
\* stored role is defendant or plaintiff; otherwise it creates exactly one new
\* case, under an id no case has had, pending and submitted by the actor, and
\* answers with that id.  So every case's submitted_by names a user whose role is
\* defendant or plaintiff.
C11_SubmitByPartyOnly ==
    /\ \A p \in Procs :
        Answered(p, "submit") =>
            IF RolesIn(pre[p].users, req[p].actor) \cap {"defendant", "plaintiff"} = {}
            THEN /\ resp[p].code = 403
                 /\ TablesAsOnArrival(p)
            ELSE /\ resp[p].code = 200
                 /\ resp[p].body.status = "pending"
                 /\ LET id == resp[p].body.case_id IN
                    /\ id \notin DOMAIN pre[p].cases
                    /\ id = nextCaseId - 1
                    /\ DOMAIN cases = DOMAIN pre[p].cases \cup {id}
                    /\ \A c \in DOMAIN pre[p].cases : cases[c] = pre[p].cases[c]
                    /\ cases[id] = CaseRow(id, req[p].case, "pending", req[p].actor)
                 /\ users = pre[p].users /\ votes = pre[p].votes
    /\ \A c \in DOMAIN cases :
        /\ c < nextCaseId
        /\ RolesIn(users, cases[c].submitted_by) \cap {"defendant", "plaintiff"} # {}

\* A second case has been submitted after the first was deleted: its id is new.
C11_Witness ==
    \E p \in Procs :
        /\ Answered(p, "submit")
        /\ resp[p].code = 200
        /\ resp[p].body.case_id = 2
        /\ DOMAIN pre[p].cases = {}

\* C12: cast_vote fails with Forbidden and records nothing unless the actor's
\* stored role is juror, whether the case exists or not and whether a vote of
\* the actor on it is stored or not.  So every vote's juror names a user whose
\* role is juror.
C12_VoteByJurorOnly ==
    /\ \A p \in Procs :
        (Answered(p, "vote") /\ "juror" \notin RolesIn(pre[p].users, req[p].actor))
        => /\ resp[p].code = 403
           /\ TablesAsOnArrival(p)
    /\ \A r \in BagToSet(votes) : "juror" \in RolesIn(users, r.juror)

\* A user who is no juror has been refused a vote on a case that does not exist,
\* with votes of jurors stored.
C12_Witness ==
    \E p \in Procs :
        /\ Answered(p, "vote")
        /\ resp[p].code = 403
        /\ req[p].case_id \notin DOMAIN cases
        /\ votes # EmptyBag

\* C13: edit by a judge on an existing case sets argument to the provided value
\* exactly when argument is provided, the empty string included, and evidence
\* likewise; an omitted field, every other column, every other case and every
\* vote stay as they were, and the case returned is the case stored.
Provided(o, old) == IF o = None THEN old ELSE o[1]

C13_EditOverwritesProvided ==
    \A p \in Procs :
        (/\ Answered(p, "edit")
         /\ IsRole(pre[p].users, req[p].actor, "judge")
         /\ req[p].case_id \in DOMAIN pre[p].cases)
        => LET c == req[p].case_id
               old == pre[p].cases[c]
           IN  /\ resp[p].code = 200
               /\ cases = [pre[p].cases EXCEPT
                            ![c].argument = Provided(req[p].update.argument, old.argument),
                            ![c].evidence = Provided(req[p].update.evidence, old.evidence)]
               /\ resp[p].body = cases[c]
               /\ users = pre[p].users /\ votes = pre[p].votes

\* C14: a vote, once created, is never changed or removed: no step, the delete
\* of its case included, takes a row out of the votes table.
C14_VotesOnlyGrow ==
    [][\A r \in BagToSet(votes) : CopiesIn(r, votes') >= CopiesIn(r, votes)]_vars

\* The case has been deleted and its vote is still stored.
C14_Witness ==
    \E p \in Procs :
        /\ Answered(p, "delete")
        /\ resp[p].code = 200
        /\ \E r \in BagToSet(votes) : r.case_id = req[p].case_id

\* C15: search_by_name fails with Forbidden for an actor whose stored role is
\* not juror; for a juror it returns exactly the cases whose defendant_name or
\* plaintiff_name contains the name as a contiguous substring, letter case
\* ignored, whatever characters the name is made of.
Contains(s, sub) ==
    \E i \in 0..(Len(s) - Len(sub)) : SubSeq(s, i + 1, i + Len(sub)) = sub

C15_SearchIsSubstringMatch ==
    \A p \in Procs :
        Answered(p, "by_name") =>
            IF "juror" \notin RolesIn(pre[p].users, req[p].actor)
            THEN resp[p].code = 403
            ELSE /\ resp[p].code = 200
                 /\ resp[p].body =
                      {pre[p].cases[i] : i \in {k \in DOMAIN pre[p].cases :
                          \/ Contains(Lower(pre[p].cases[k].defendant_name), Lower(req[p].name))
                          \/ Contains(Lower(pre[p].cases[k].plaintiff_name), Lower(req[p].name))}}

\* C16: a request that acquired a database connection has released it when it
\* ends, on every exit path: no connection is open for a slot whose request has
\* been answered or that serves none.
C16_ConnectionReleased ==
    \A p \in Procs : pc[p] \in {"idle", "done"} => p \notin conns

\* C17: however concurrent signups interleave, users holds at most one row per
\* username, and at most one of two competing signups for a username is
\* answered with a credential.
C17_OneUserPerUsername ==
    /\ \A i, j \in DOMAIN users : users[i].username = users[j].username => i = j
    /\ \A p, q \in Procs :
        (/\ Answered(p, "signup") /\ Answered(q, "signup")
         /\ req[p].username = req[q].username
         /\ resp[p].code = 200 /\ resp[q].code = 200) => p = q

\* C18: no step changes or removes a row of users (rows are only added), so
\* every username a credential was issued for has a row in every later state,
\* and no request that looks up its actor's role fails for want of that row.
C18_UsersImmutable ==
    /\ [](/\ \A u \in tokens : SelectUser(u) # {}
          /\ \A p \in Procs :
                (pc[p] = "done" /\ "actor" \in DOMAIN req[p]) => resp[p].code # 500)
    /\ [][\A i \in DOMAIN users : i \in DOMAIN users' /\ users'[i] = users[i]]_vars

\* A user created by signup during the run has had a role lookup succeed.
C18_Witness ==
    \E p \in Procs :
        /\ Answered(p, "vote")
        /\ req[p].actor = "ned"
        /\ resp[p].code = 200
        /\ Len(users) > 3

\* C19: cast_vote by a juror who has not yet voted on an existing case records
\* the vote and succeeds whatever the status of the case (pending, approved or
\* rejected), and approve and reject leave votes as they were.
C19_VoteWhateverStatus ==
    \A p \in Procs :
        /\ (/\ Answered(p, "vote")
            /\ IsRole(pre[p].users, req[p].actor, "juror")
            /\ req[p].case_id \in DOMAIN pre[p].cases
            /\ VotesBy(pre[p].votes, req[p].case_id, req[p].actor) = 0)
           => /\ resp[p].code = 200
              /\ votes = pre[p].votes
                    (+) SetToBag({VoteRow(req[p].case_id, req[p].actor, req[p].verdict)})
              /\ cases = pre[p].cases
        /\ (Answered(p, "approve") \/ Answered(p, "reject")) => votes = pre[p].votes

\* A vote has been recorded on a case a judge had already approved or rejected.
C19_Witness ==
    \E p \in Procs :
        /\ Answered(p, "vote")
        /\ resp[p].code = 200
        /\ req[p].case_id \in DOMAIN cases
        /\ cases[req[p].case_id].status \in {"approved", "rejected"}

\* A judge has approved or rejected a case that has votes.
C19_SettledWithVotes ==
    \E p \in Procs :
        /\ Answered(p, "approve") \/ Answered(p, "reject")
        /\ resp[p].code = 200
        /\ VotesOn(votes, req[p].case_id) > 0

====
